---- MODULE Spec2Model ----
(***************************************************************************)
(* A model of the tag-value wire codec helpers of fefix                    *)
(* (fefix/src/tagvalue/utils.rs), of its configuration                     *)
(* (fefix/src/tagvalue/config.rs) and of the DataType taxonomy             *)
(* (fefix/src/dt.rs).                                                      *)
(*                                                                         *)
(* Bytes are naturals in 0..255 and u8 arithmetic wraps modulo 256.        *)
(* Machine words (usize) wrap modulo USIZE_MODULUS.  Slices are sequences; *)
(* a Rust offset i is the sequence index i+1.                              *)
(***************************************************************************)
EXTENDS Integers, Sequences, FiniteSets, TLC

VARIABLES
    buffer,            \* the output buffer handed to encode_raw (B: Buffer)
    data,              \* the byte slice handed to the validators
    debug_assertions,  \* build profile: debug assertions and overflow checks on
    call,              \* the last call made: its arguments and what it returned
    config,            \* the Config the caller holds
    history            \* the setter calls made on config since Config::default()

vars == <<buffer, data, debug_assertions, call, config, history>>

----------------------------------------------------------------------------
(* Bounds of the model. *)

MaxPriorLen == 1   \* longest content of the buffer before encode_raw
MaxBeginLen == 2   \* longest begin-string
MaxBodyLen == 2    \* longest body the body writer appends
MaxDataLen == 3    \* longest free-form slice handed to checksum_10

(* Bytes the callers pick from. 255 makes every sum wrap. *)
PayloadBytes == {49, 255}
Separators == {1, 124}
ChecksumBytes == {1, 127, 128, 255}

RECURSIVE SeqsOfLen(_, _)
SeqsOfLen(S, n) ==
    IF n = 0 THEN {<<>>}
    ELSE {Append(s, b) : s \in SeqsOfLen(S, n - 1), b \in S}

BoundedSeq(S, n) == UNION {SeqsOfLen(S, k) : k \in 0..n}

----------------------------------------------------------------------------
(* Machine arithmetic. *)

U8_MODULUS == 256

(* usize. The word is modelled 30 bits wide so that every intermediate     *)
(* value stays inside TLC's integers; wrapping behaves as at 32 or 64 bits.*)
USIZE_MODULUS == 2 ^ 30
USIZE_MAX == USIZE_MODULUS - 1

u8_wrapping_add(a, b) == (a + b) % U8_MODULUS
u8_wrapping_sub(a, b) == (a - b) % U8_MODULUS
u8_wrapping_mul(a, b) == (a * b) % U8_MODULUS
usize_wrapping_sub(a, b) == (a - b) % USIZE_MODULUS

(* `x as u8`: truncation to the low eight bits. *)
as_u8(x) == x % U8_MODULUS

ASCII_0 == 48
ASCII_1 == 49
ASCII_8 == 56
ASCII_9 == 57
ASCII_EQ == 61

----------------------------------------------------------------------------
(* fefix/src/tagvalue/config.rs *)

SOH == 1

(* The provided methods of trait Configure. *)
Configure_separator(self) == SOH
Configure_max_message_size(self) == <<65536>>     \* Some(65536)
Configure_verify_checksum(self) == TRUE

(* Mutant: checksum verification off by default. *)
Config_default_unverified == [separator |-> SOH, verify_checksum |-> FALSE]

(* impl Default for Config. *)
Config_default == [separator |-> SOH, verify_checksum |-> TRUE]

(* Mutant: the builder starts again from the default Config. *)
Config_with_separator_fresh(self, separator) ==
    [Config_default EXCEPT !.separator = separator]

(* Config::set_separator and Config::with_separator. *)
Config_set_separator(self, separator) == [self EXCEPT !.separator = separator]
Config_with_separator(self, separator) == [self EXCEPT !.separator = separator]

(* Config::set_verify_checksum and Config::with_checksum_verification. *)
Config_set_verify_checksum(self, verify) ==
    [self EXCEPT !.verify_checksum = verify]
Config_with_checksum_verification(self, verify) ==
    [self EXCEPT !.verify_checksum = verify]

(* impl Configure for Config: separator and verify_checksum are overridden,*)
(* max_message_size is the provided method.                                *)
Config_separator(self) == self.separator
Config_verify_checksum(self) == self.verify_checksum
Config_max_message_size(self) == Configure_max_message_size(self)

----------------------------------------------------------------------------
(* fefix/src/tagvalue/utils.rs *)

MIN_FIX_MESSAGE_LEN_IN_BYTES == 20
FIELD_CHECKSUM_LEN_IN_BYTES == 7

(* Mutant: the multipliers of the first two digits exchanged. *)
parse_u8_from_decimal_swapped(digits) ==
    u8_wrapping_add(
        u8_wrapping_add(
            u8_wrapping_mul(u8_wrapping_sub(digits[1], ASCII_0), 10),
            u8_wrapping_mul(u8_wrapping_sub(digits[2], ASCII_0), 100)),
        u8_wrapping_sub(digits[3], ASCII_0))

(* parse_u8_from_decimal: digits is a [u8; 3]. *)
parse_u8_from_decimal(digits) ==
    u8_wrapping_add(
        u8_wrapping_add(
            u8_wrapping_mul(u8_wrapping_sub(digits[1], ASCII_0), 100),
            u8_wrapping_mul(u8_wrapping_sub(digits[2], ASCII_0), 10)),
        u8_wrapping_sub(digits[3], ASCII_0))

(* checksum_10: the loop over the bytes of data, each added to value with *)
(* wrapping_add; value is the accumulator before the byte at index i.     *)
RECURSIVE checksum_10_loop(_, _, _)
checksum_10_loop(bytes, i, value) ==
    IF i > Len(bytes) THEN value
    ELSE checksum_10_loop(bytes, i + 1, u8_wrapping_add(value, bytes[i]))

(* Mutant: the loop starts at the second byte. *)
checksum_10_skips_first(bytes) == checksum_10_loop(bytes, 2, 0)

checksum_10(bytes) == checksum_10_loop(bytes, 1, 0)

(* checksum_digits panics when the debug assertion fails, and when the     *)
(* range len-4 .. len-1 is no range of the slice.                          *)
checksum_digits_panics(message, dbg) ==
    \/ dbg /\ Len(message) < MIN_FIX_MESSAGE_LEN_IN_BYTES
    \/ Len(message) < 4

(* Mutant: the range len-3 .. len, which takes the separator in. *)
checksum_digits_shifted(message) ==
    SubSeq(message, Len(message) - 2, Len(message))

checksum_digits(message) ==
    SubSeq(message, Len(message) - 3, Len(message) - 1)

(* verify_checksum: "Ok", "CheckSum" (DecodeError::CheckSum) or "Panic". *)
verify_checksum(message, dbg) ==
    IF checksum_digits_panics(message, dbg) THEN "Panic"
    ELSE IF Len(message) < FIELD_CHECKSUM_LEN_IN_BYTES THEN "Panic"
    ELSE
        LET nominal_checksum == parse_u8_from_decimal(checksum_digits(message))
            actual_checksum ==
                checksum_10(SubSeq(message, 1,
                                   Len(message) - FIELD_CHECKSUM_LEN_IN_BYTES))
        IN  IF nominal_checksum # actual_checksum THEN "CheckSum" ELSE "Ok"

(* Mutant: the test `start_of_body > end_of_body` left out. *)
verify_body_length_unbounded(bytes, start_of_body, nominal_body_length, dbg) ==
    LET body_length ==
            usize_wrapping_sub(
                usize_wrapping_sub(Len(bytes), FIELD_CHECKSUM_LEN_IN_BYTES),
                start_of_body)
    IN  IF dbg /\ Len(bytes) < FIELD_CHECKSUM_LEN_IN_BYTES THEN "Panic"
        ELSE IF nominal_body_length # body_length THEN "Invalid"
        ELSE "Ok"

(* verify_body_length: "Ok", "Invalid" (DecodeError::Invalid) or "Panic".  *)
(* `data.len() - FIELD_CHECKSUM_LEN_IN_BYTES` is a checked subtraction in  *)
(* a debug build and a wrapping one otherwise.                             *)
verify_body_length(bytes, start_of_body, nominal_body_length, dbg) ==
    LET body_length ==
            usize_wrapping_sub(
                usize_wrapping_sub(Len(bytes), FIELD_CHECKSUM_LEN_IN_BYTES),
                start_of_body)
        end_of_body == usize_wrapping_sub(Len(bytes), FIELD_CHECKSUM_LEN_IN_BYTES)
    IN  IF dbg /\ Len(bytes) < FIELD_CHECKSUM_LEN_IN_BYTES THEN "Panic"
        ELSE IF start_of_body > end_of_body \/ nominal_body_length # body_length
        THEN "Invalid"
        ELSE IF dbg /\ ~(body_length < Len(bytes)) THEN "Panic"
        ELSE "Ok"

(* The Buffer operations encode_raw uses. *)
extend_from_slice(buf, bytes) == buf \o bytes

(* Assignment through `&mut buffer.as_mut_slice()[range]`: bytes go to the *)
(* offsets first .. first + Len(bytes) - 1, every other byte stays.        *)
write_slice(buf, first, bytes) ==
    [i \in 1..Len(buf) |->
        IF first < i /\ i <= first + Len(bytes) THEN bytes[i - first] ELSE buf[i]]

(* The body writers considered: F appends `body` to the buffer. What it    *)
(* returns is the caller's choice (ret in EncodeRaw).                      *)
body_writer(buf, body) == extend_from_slice(buf, body)

(* Mutant: the buffer is emptied before BeginString(8) is written. *)
write_begin_string_cleared(buf, begin_string, separator) ==
    extend_from_slice(
        extend_from_slice(<<ASCII_8, ASCII_EQ>>, begin_string),
        <<separator, ASCII_9, ASCII_EQ,
          ASCII_0, ASCII_0, ASCII_0, ASCII_0, ASCII_0, ASCII_0, separator>>)

(* BeginString(8) and the BodyLength(9) placeholder. *)
write_begin_string(buf, begin_string, separator) ==
    extend_from_slice(
        extend_from_slice(
            extend_from_slice(buf, <<ASCII_8, ASCII_EQ>>),
            begin_string),
        <<separator, ASCII_9, ASCII_EQ,
          ASCII_0, ASCII_0, ASCII_0, ASCII_0, ASCII_0, ASCII_0, separator>>)

(* Offset of the first byte of body_length_writable_range, len - 7. *)
body_length_writable_start(buf) == Len(buf) - 7

(* `(body_length / 100000) as u8 + b'0'` is the one sum of the back-patch  *)
(* that can exceed u8.                                                     *)
body_length_overflows(body_length) ==
    as_u8(body_length \div 100000) + ASCII_0 >= U8_MODULUS

(* Mutant: slice[2] computed with the divisor of slice[3]. *)
body_length_digits_repeated(body_length) ==
    << u8_wrapping_add(as_u8(body_length \div 100000), ASCII_0),
       as_u8((body_length \div 10000) % 10) + ASCII_0,
       as_u8((body_length \div 100) % 10) + ASCII_0,
       as_u8((body_length \div 100) % 10) + ASCII_0,
       as_u8((body_length \div 10) % 10) + ASCII_0,
       as_u8(body_length % 10) + ASCII_0 >>

(* Mutant: slice[1] without its `% 10`. *)
body_length_digits_unreduced(body_length) ==
    << u8_wrapping_add(as_u8(body_length \div 100000), ASCII_0),
       u8_wrapping_add(as_u8(body_length \div 10000), ASCII_0),
       as_u8((body_length \div 1000) % 10) + ASCII_0,
       as_u8((body_length \div 100) % 10) + ASCII_0,
       as_u8((body_length \div 10) % 10) + ASCII_0,
       as_u8(body_length % 10) + ASCII_0 >>

(* The six bytes assigned to slice[0] .. slice[5]. *)
body_length_digits(body_length) ==
    << u8_wrapping_add(as_u8(body_length \div 100000), ASCII_0),
       as_u8((body_length \div 10000) % 10) + ASCII_0,
       as_u8((body_length \div 1000) % 10) + ASCII_0,
       as_u8((body_length \div 100) % 10) + ASCII_0,
       as_u8((body_length \div 10) % 10) + ASCII_0,
       as_u8(body_length % 10) + ASCII_0 >>

(* The three digits written after `10=`. *)
checksum_field_digits(checksum) ==
    << (checksum \div 100) + ASCII_0,
       ((checksum \div 10) % 10) + ASCII_0,
       (checksum % 10) + ASCII_0 >>

append_checksum_field(buf, start_i, separator) ==
    LET checksum == checksum_10(SubSeq(buf, start_i + 1, Len(buf)))
    IN  extend_from_slice(buf,
            <<ASCII_1, ASCII_0, ASCII_EQ>> \o checksum_field_digits(checksum)
                \o <<separator>>)

(* What encode_raw returns on success: Ok(buffer.as_slice().len()). *)
encode_raw_value(buf) == Len(buf)

(* encode_raw. The record holds the buffer after the header (header), after*)
(* the body writer (written), after the back-patch (patched) and at the    *)
(* end (buffer), and the outcome: returned is "Ok" or "Panic", value the   *)
(* usize inside Ok.                                                        *)
encode_raw(begin_string, body, ret, buf, separator, dbg) ==
    LET start_i == Len(buf)
        header == write_begin_string(buf, begin_string, separator)
        first == body_length_writable_start(header)
        written == body_writer(header, body)
        body_length == ret
    IN  IF dbg /\ body_length_overflows(body_length)
        THEN [start_i |-> start_i, header |-> header, written |-> written,
              patched |-> written, buffer |-> written,
              returned |-> "Panic", value |-> 0]
        ELSE
            LET patched == write_slice(written, first, body_length_digits(body_length))
                final == append_checksum_field(patched, start_i, separator)
            IN  [start_i |-> start_i, header |-> header, written |-> written,
                 patched |-> patched, buffer |-> final,
                 returned |-> "Ok", value |-> encode_raw_value(final)]

----------------------------------------------------------------------------
(* The encoder: one call of encode_raw on a buffer that may hold earlier   *)
(* bytes.                                                                  *)

(* Values a body writer returns besides the length of what it appended. *)
BodyLengthSamples ==
    {0, 42, 12345, 543210, 999999, 1000000, 20800000}

NoCall == [op |-> "none"]

Init ==
    /\ buffer \in BoundedSeq(PayloadBytes, MaxPriorLen)
    /\ data = <<>>
    /\ debug_assertions \in BOOLEAN
    /\ call = NoCall
    /\ config = Config_default
    /\ history = <<>>

EncodeRaw ==
    /\ Len(buffer) <= MaxPriorLen
    /\ \E begin_string \in BoundedSeq(PayloadBytes, MaxBeginLen),
          separator \in Separators,
          body \in BoundedSeq(PayloadBytes, MaxBodyLen) :
        \E ret \in BodyLengthSamples \cup {Len(body)} :
            LET r == encode_raw(begin_string, body, ret, buffer, separator,
                                debug_assertions)
            IN  /\ buffer' = r.buffer
                /\ call' = [op |-> "encode_raw",
                            begin_string |-> begin_string,
                            separator |-> separator,
                            body |-> body,
                            ret |-> ret,
                            before |-> buffer,
                            start_i |-> r.start_i,
                            header |-> r.header,
                            written |-> r.written,
                            patched |-> r.patched,
                            returned |-> r.returned,
                            value |-> r.value]
    /\ UNCHANGED <<data, debug_assertions, config, history>>

Next == EncodeRaw

Spec == Init /\ [][Next]_vars

----------------------------------------------------------------------------
(* Properties of the encoder. *)

Encoded == call.op = "encode_raw" /\ call.returned = "Ok"

(* The message of the last encode_raw call: the bytes from start_i on. *)
Message == SubSeq(buffer, call.start_i + 1, Len(buffer))

(* Offset, in the message, of the first byte after the separator that ends *)
(* the BodyLength field.                                                   *)
StartOfBody == Len(call.header) - call.start_i

(* The six bytes between `9=` and the separator, in the buffer s. *)
BodyLengthField(s) == SubSeq(s, Len(call.header) - 6, Len(call.header) - 1)

IsDigit(b) == ASCII_0 <= b /\ b <= ASCII_9

(* The number a sequence of ASCII digits spells, most significant first. *)
RECURSIVE DecimalValue(_)
DecimalValue(digits) ==
    IF digits = <<>> THEN 0
    ELSE 10 * DecimalValue(SubSeq(digits, 1, Len(digits) - 1))
            + (digits[Len(digits)] - ASCII_0)

MaxBodyLength == 999999

(* C1: the message encode_raw writes for a body writer that returns the    *)
(* number of bytes it appended (at most 999,999) passes verify_checksum,   *)
(* and passes verify_body_length given the offset of the body and the      *)
(* value in the BodyLength field.                                          *)
C1_EncodedMessageVerifies ==
    (call.op = "encode_raw" /\ call.ret = Len(call.body)
        /\ Len(call.body) <= MaxBodyLength)
    => /\ call.returned = "Ok"
       /\ verify_checksum(Message, debug_assertions) = "Ok"
       /\ verify_body_length(Message, StartOfBody,
                             DecimalValue(BodyLengthField(buffer)),
                             debug_assertions) = "Ok"

(* C2: encode_raw returns the number of bytes it wrote during the call,    *)
(* whatever the buffer held before.                                        *)
C2_ReturnsBytesWritten ==
    Encoded => call.value = Len(buffer) - Len(call.before)

(* C3: for a body length n in 0..999,999 the six reserved bytes between    *)
(* `9=` and the separator spell n in decimal, zero-padded on the left, and *)
(* the back-patch overwrites them in place: the buffer keeps its length    *)
(* and every other byte, and the trailer is appended after them.           *)
C3_BodyLengthBackPatched ==
    (call.op = "encode_raw" /\ call.ret <= MaxBodyLength)
    => /\ call.returned = "Ok"
       /\ LET field == BodyLengthField(call.patched)
              first == Len(call.header) - 7
          IN  /\ Len(field) = 6
              /\ \A i \in 1..6 : IsDigit(field[i])
              /\ DecimalValue(field) = call.ret
              /\ call.patched[first - 1] = ASCII_9
              /\ call.patched[first] = ASCII_EQ
              /\ call.patched[first + 7] = call.separator
              /\ Len(call.patched) = Len(call.written)
              /\ \A i \in 1..Len(call.written) :
                    (i <= first \/ i > first + 6)
                    => call.patched[i] = call.written[i]
              /\ SubSeq(buffer, 1, Len(call.patched)) = call.patched

C3_Witness ==
    /\ Encoded
    /\ call.ret = 543210
    /\ call.body # <<>>
    /\ BodyLengthField(buffer) = <<53, 52, 51, 50, 49, 48>>

(* C4: every message the encoder produces is at least                      *)
(* MIN_FIX_MESSAGE_LEN_IN_BYTES long, the empty begin-string and the empty *)
(* body included.                                                          *)
C4_MessageAtLeastMinLen ==
    Encoded => Len(Message) >= MIN_FIX_MESSAGE_LEN_IN_BYTES

----------------------------------------------------------------------------
(* The validators, applied to slices a decoder may be handed: well-formed  *)
(* messages, the same with one byte replaced, removed or inserted, their   *)
(* prefixes, and short free-form slices.                                   *)

(* The heartbeat `8=FIX.4.4|9=000005|35=0|10=...|` as encode_raw writes it  *)
(* into an empty buffer, the separator being SOH.                          *)
Heartbeat ==
    encode_raw(<<70, 73, 88, 46, 52, 46, 52>>, <<51, 53, 61, 48, 1>>, 5,
               <<>>, 1, FALSE).buffer

(* `8=?|9=?|35=?|10=???|`: the shortest message, MIN_FIX_MESSAGE_LEN_IN_BYTES long. *)
ShortestMessage ==
    <<56, 61, 63, 124, 57, 61, 63, 124, 51, 53, 61, 63, 124,
      49, 48, 61, 63, 63, 63, 124>>

(* `8=FIX.4.4|9=1337|35=?|...|10=ABC|` of test::correct_retrieval_of_checksum_digits. *)
TestMessage ==
    <<56, 61, 70, 73, 88, 46, 52, 46, 52, 124, 57, 61, 49, 51, 51, 55, 124,
      51, 53, 61, 63, 124, 46, 46, 46, 124, 49, 48, 61, 65, 66, 67, 124>>

Templates == {Heartbeat, ShortestMessage, TestMessage}

CorruptBytes == {0, 49, 255}

Replaced(t, i, b) == [t EXCEPT ![i] = b]
Removed(t, i) == SubSeq(t, 1, i - 1) \o SubSeq(t, i + 1, Len(t))
Inserted(t, i, b) == SubSeq(t, 1, i) \o <<b>> \o SubSeq(t, i + 1, Len(t))

InputSlices ==
    Templates
    \cup {Replaced(t, i, b) : <<t, i, b>> \in
            {x \in Templates \X (1..33) \X CorruptBytes : x[2] <= Len(x[1])}}
    \cup {Removed(x[1], x[2]) : x \in
            {y \in Templates \X (1..33) : y[2] <= Len(y[1])}}
    \cup {Inserted(x[1], x[2], x[3]) : x \in
            {y \in Templates \X (0..33) \X CorruptBytes : y[2] <= Len(y[1])}}
    \cup {SubSeq(x[1], 1, x[2]) : x \in
            {y \in Templates \X (0..33) : y[2] <= Len(y[1])}}
    \cup BoundedSeq(ChecksumBytes, MaxDataLen)

(* start_of_body and nominal_body_length arguments. *)
StartSamples == {0, 8, 17, 19, USIZE_MAX}
NominalSamples == {0, 5, 9, USIZE_MAX}

InitUtils ==
    /\ buffer = <<>>
    /\ data \in InputSlices
    /\ debug_assertions \in BOOLEAN
    /\ call = NoCall
    /\ config = Config_default
    /\ history = <<>>

Checksum10 ==
    /\ call' = [op |-> "checksum_10", result |-> checksum_10(data)]
    /\ UNCHANGED <<buffer, data, debug_assertions, config, history>>

ChecksumDigits ==
    /\ call' = IF checksum_digits_panics(data, debug_assertions)
               THEN [op |-> "checksum_digits", returned |-> "Panic",
                     digits |-> <<>>]
               ELSE [op |-> "checksum_digits", returned |-> "Ok",
                     digits |-> checksum_digits(data)]
    /\ UNCHANGED <<buffer, data, debug_assertions, config, history>>

VerifyChecksum ==
    /\ call' = [op |-> "verify_checksum",
                result |-> verify_checksum(data, debug_assertions)]
    /\ UNCHANGED <<buffer, data, debug_assertions, config, history>>

VerifyBodyLength ==
    /\ \E start_of_body \in StartSamples
            \cup {usize_wrapping_sub(Len(data), FIELD_CHECKSUM_LEN_IN_BYTES),
                  usize_wrapping_sub(Len(data), FIELD_CHECKSUM_LEN_IN_BYTES - 1)} :
        \E nominal_body_length \in NominalSamples
            \cup {usize_wrapping_sub(
                    usize_wrapping_sub(Len(data), FIELD_CHECKSUM_LEN_IN_BYTES),
                    start_of_body)} :
            call' = [op |-> "verify_body_length",
                     start_of_body |-> start_of_body,
                     nominal_body_length |-> nominal_body_length,
                     result |-> verify_body_length(data, start_of_body,
                                    nominal_body_length, debug_assertions)]
    /\ UNCHANGED <<buffer, data, debug_assertions, config, history>>

NextUtils ==
    \/ Checksum10
    \/ ChecksumDigits
    \/ VerifyChecksum
    \/ VerifyBodyLength

SpecUtils == InitUtils /\ [][NextUtils]_vars

----------------------------------------------------------------------------
(* Properties of the validators. *)

(* The sum of the bytes of a slice, as an unbounded integer. *)
RECURSIVE SumBytes(_)
SumBytes(bytes) ==
    IF bytes = <<>> THEN 0 ELSE bytes[1] + SumBytes(Tail(bytes))

(* The value three bytes spell when read as decimal digits, modulo 256. *)
DecimalByte(b0, b1, b2) ==
    (100 * (b0 - ASCII_0) + 10 * (b1 - ASCII_0) + (b2 - ASCII_0)) % 256

(* C5: checksum_10(d) is the sum of the bytes of d modulo 256, a byte for  *)
(* every d and 0 for the empty slice; checksum([1]) = 1,                   *)
(* checksum([128,127]) = 255 and checksum([128,128]) = 0.                  *)
C5_ChecksumIsSumMod256 ==
    call.op = "checksum_10"
    => /\ call.result \in 0..255
       /\ call.result = SumBytes(data) % 256
       /\ (data = <<>> => call.result = 0)
       /\ (data = <<1>> => call.result = 1)
       /\ (data = <<128, 127>> => call.result = 255)
       /\ (data = <<128, 128>> => call.result = 0)

C5_Witness ==
    /\ call.op = "checksum_10"
    /\ data = <<128, 128>>
    /\ call.result = 0

(* C6: on a message of at least 20 bytes verify_checksum succeeds exactly  *)
(* when the sum modulo 256 of all bytes but the last 7 is the value spelt  *)
(* by the three bytes at offsets len-4 .. len-1, and returns the checksum  *)
(* error in every other case.                                              *)
C6_VerifyChecksumExact ==
    (call.op = "verify_checksum" /\ Len(data) >= MIN_FIX_MESSAGE_LEN_IN_BYTES)
    => LET n == Len(data)
           matches ==
               SumBytes(SubSeq(data, 1, n - 7)) % 256
                   = DecimalByte(data[n - 3], data[n - 2], data[n - 1])
       IN  /\ call.result \in {"Ok", "CheckSum"}
           /\ call.result = "Ok" <=> matches

C6_Witness ==
    /\ call.op = "verify_checksum"
    /\ data = Heartbeat
    /\ call.result = "Ok"

C6_WitnessMismatch ==
    /\ call.op = "verify_checksum"
    /\ Len(data) = Len(Heartbeat)
    /\ data # Heartbeat
    /\ call.result = "CheckSum"

(* C7: on data of at least 7 bytes verify_body_length succeeds exactly     *)
(* when start_of_body <= len - 7 and the declared length is                *)
(* len - 7 - start_of_body, and returns the invalid-body-length error      *)
(* otherwise; so a message one byte shorter or longer than a message whose *)
(* declared length is right is rejected.                                   *)
C7_VerifyBodyLengthExact ==
    (call.op = "verify_body_length" /\ Len(data) >= FIELD_CHECKSUM_LEN_IN_BYTES)
    => LET n == Len(data)
           fits ==
               /\ call.start_of_body <= n - 7
               /\ call.nominal_body_length = n - 7 - call.start_of_body
       IN  /\ call.result \in {"Ok", "Invalid"}
           /\ call.result = "Ok" <=> fits
           /\ \A t \in Templates :
                (/\ n \in {Len(t) - 1, Len(t) + 1}
                 /\ call.start_of_body <= Len(t) - 7
                 /\ call.nominal_body_length = Len(t) - 7 - call.start_of_body)
                => call.result = "Invalid"

C7_Witness ==
    /\ call.op = "verify_body_length"
    /\ data = Heartbeat
    /\ call.start_of_body = 19
    /\ call.nominal_body_length = 5
    /\ call.result = "Ok"

C7_WitnessRejected ==
    /\ call.op = "verify_body_length"
    /\ Len(data) = Len(Heartbeat) - 1
    /\ call.start_of_body = 19
    /\ call.nominal_body_length = 5
    /\ call.result = "Invalid"

----------------------------------------------------------------------------
(* parse_u8_from_decimal on byte triples, and on the digits encode_raw     *)
(* writes for a checksum.                                                  *)

DigitBytes == {0, 47, 48, 49, 50, 53, 57, 58, 65, 255}

InitDecimal ==
    /\ buffer = <<>>
    /\ data = <<>>
    /\ debug_assertions \in BOOLEAN
    /\ call = NoCall
    /\ config = Config_default
    /\ history = <<>>

ParseU8 ==
    /\ \E b0 \in DigitBytes, b1 \in DigitBytes, b2 \in DigitBytes :
        call' = [op |-> "parse_u8_from_decimal",
                 digits |-> <<b0, b1, b2>>,
                 result |-> parse_u8_from_decimal(<<b0, b1, b2>>)]
    /\ UNCHANGED <<buffer, data, debug_assertions, config, history>>

(* The digits of a checksum as encode_raw formats them, parsed back as     *)
(* verify_checksum does.                                                   *)
FormatThenParse ==
    /\ \E checksum \in 0..255 :
        LET digits == checksum_field_digits(checksum)
        IN  call' = [op |-> "format_then_parse",
                     checksum |-> checksum,
                     digits |-> digits,
                     result |-> parse_u8_from_decimal(digits)]
    /\ UNCHANGED <<buffer, data, debug_assertions, config, history>>

NextDecimal ==
    \/ ParseU8
    \/ FormatThenParse

SpecDecimal == InitDecimal /\ [][NextDecimal]_vars

(* C8: parse_u8_from_decimal(b0, b1, b2) is                                *)
(* (100*(b0-48) + 10*(b1-48) + (b2-48)) mod 256 for every byte triple; for *)
(* three digits spelling v <= 255 it is v; and it inverts the three-digit  *)
(* checksum formatting of the encoder.                                     *)
C8_ParseU8FromDecimal ==
    /\ call.op = "parse_u8_from_decimal"
       => /\ call.result \in 0..255
          /\ call.result
                = DecimalByte(call.digits[1], call.digits[2], call.digits[3])
          /\ ((\A i \in 1..3 : IsDigit(call.digits[i]))
                  /\ DecimalValue(call.digits) <= 255)
             => call.result = DecimalValue(call.digits)
    /\ call.op = "format_then_parse"
       => /\ \A i \in 1..3 : IsDigit(call.digits[i])
          /\ DecimalValue(call.digits) = call.checksum
          /\ call.result = call.checksum

C8_Witness ==
    /\ call.op = "format_then_parse"
    /\ call.checksum = 255
    /\ call.digits = <<50, 53, 53>>
    /\ call.result = 255

C8_WitnessWraps ==
    /\ call.op = "parse_u8_from_decimal"
    /\ call.digits = <<57, 57, 57>>
    /\ call.result = 231

----------------------------------------------------------------------------
(* fefix/src/dt.rs *)

(* The variants of enum DataType, in the order of their declaration. *)
DataTypeVariants ==
    <<"Char", "Boolean", "Float", "Amt", "Price", "PriceOffset", "Qty",
      "Percentage", "Int", "DayOfMonth", "Length", "NumInGroup", "SeqNum",
      "TagNum", "String", "Data", "MonthYear", "MultipleCharValue",
      "Currency", "Exchange", "Language", "LocalMktDate",
      "MultipleStringValue", "UtcDateOnly", "UtcTimeOnly", "UtcTimestamp",
      "XmlData", "Country">>

DataType == {DataTypeVariants[i] : i \in 1..Len(DataTypeVariants)}

(* Option<DataType>. *)
None == <<>>
Some(dt) == <<dt>>

(* Mutant: the name LENGTH given its own variant. *)
from_quickfix_name_length(name) ==
    CASE name = "AMT" -> Some("Amt")
      [] name = "BOOLEAN" -> Some("Boolean")
      [] name = "CHAR" -> Some("Char")
      [] name = "COUNTRY" -> Some("Country")
      [] name = "CURRENCY" -> Some("Currency")
      [] name = "DATA" -> Some("Data")
      [] name = "DATE" -> Some("UtcDateOnly")
      [] name = "DAYOFMONTH" -> Some("DayOfMonth")
      [] name = "EXCHANGE" -> Some("Exchange")
      [] name = "FLOAT" -> Some("Float")
      [] name = "INT" -> Some("Int")
      [] name = "LANGUAGE" -> Some("Language")
      [] name = "LENGTH" -> Some("Length")
      [] name = "LOCALMKTDATE" -> Some("LocalMktDate")
      [] name = "MONTHYEAR" -> Some("MonthYear")
      [] name = "MULTIPLECHARVALUE" -> Some("MultipleCharValue")
      [] name = "MULTIPLEVALUESTRING" -> Some("MultipleCharValue")
      [] name = "MULTIPLESTRINGVALUE" -> Some("MultipleStringValue")
      [] name = "NUMINGROUP" -> Some("NumInGroup")
      [] name = "PERCENTAGE" -> Some("Percentage")
      [] name = "PRICE" -> Some("Price")
      [] name = "PRICEOFFSET" -> Some("PriceOffset")
      [] name = "QTY" -> Some("Qty")
      [] name = "STRING" -> Some("String")
      [] name = "TZTIMEONLY" -> Some("UtcTimeOnly")
      [] name = "TZTIMESTAMP" -> Some("UtcTimestamp")
      [] name = "UTCDATE" -> Some("UtcDateOnly")
      [] name = "UTCDATEONLY" -> Some("UtcDateOnly")
      [] name = "UTCTIMEONLY" -> Some("UtcTimeOnly")
      [] name = "UTCTIMESTAMP" -> Some("UtcTimestamp")
      [] name = "SEQNUM" -> Some("Int")
      [] name = "TIME" -> Some("UtcTimestamp")
      [] name = "XMLDATA" -> Some("XmlData")
      [] OTHER -> None

(* DataType::from_quickfix_name: the match on name.as_ref(). *)
from_quickfix_name(name) ==
    CASE name = "AMT" -> Some("Amt")
      [] name = "BOOLEAN" -> Some("Boolean")
      [] name = "CHAR" -> Some("Char")
      [] name = "COUNTRY" -> Some("Country")
      [] name = "CURRENCY" -> Some("Currency")
      [] name = "DATA" -> Some("Data")
      [] name = "DATE" -> Some("UtcDateOnly")
      [] name = "DAYOFMONTH" -> Some("DayOfMonth")
      [] name = "EXCHANGE" -> Some("Exchange")
      [] name = "FLOAT" -> Some("Float")
      [] name = "INT" -> Some("Int")
      [] name = "LANGUAGE" -> Some("Language")
      [] name = "LENGTH" -> Some("Int")
      [] name = "LOCALMKTDATE" -> Some("LocalMktDate")
      [] name = "MONTHYEAR" -> Some("MonthYear")
      [] name = "MULTIPLECHARVALUE" -> Some("MultipleCharValue")
      [] name = "MULTIPLEVALUESTRING" -> Some("MultipleCharValue")
      [] name = "MULTIPLESTRINGVALUE" -> Some("MultipleStringValue")
      [] name = "NUMINGROUP" -> Some("NumInGroup")
      [] name = "PERCENTAGE" -> Some("Percentage")
      [] name = "PRICE" -> Some("Price")
      [] name = "PRICEOFFSET" -> Some("PriceOffset")
      [] name = "QTY" -> Some("Qty")
      [] name = "STRING" -> Some("String")
      [] name = "TZTIMEONLY" -> Some("UtcTimeOnly")
      [] name = "TZTIMESTAMP" -> Some("UtcTimestamp")
      [] name = "UTCDATE" -> Some("UtcDateOnly")
      [] name = "UTCDATEONLY" -> Some("UtcDateOnly")
      [] name = "UTCTIMEONLY" -> Some("UtcTimeOnly")
      [] name = "UTCTIMESTAMP" -> Some("UtcTimestamp")
      [] name = "SEQNUM" -> Some("Int")
      [] name = "TIME" -> Some("UtcTimestamp")
      [] name = "XMLDATA" -> Some("XmlData")
      [] OTHER -> None

(* DataType::to_quickfix_name. *)
to_quickfix_name(self) ==
    CASE self = "Int" -> "int"
      [] self = "Length" -> "Length"
      [] self = "Char" -> "char"
      [] self = "Boolean" -> "Boolean"
      [] self = "Float" -> "float"
      [] self = "Amt" -> "Amt"
      [] self = "Price" -> "Price"
      [] self = "PriceOffset" -> "PriceOffset"
      [] self = "Qty" -> "Qty"
      [] self = "Percentage" -> "Percentage"
      [] self = "DayOfMonth" -> "DayOfMonth"
      [] self = "NumInGroup" -> "NumInGroup"
      [] self = "Language" -> "Language"
      [] self = "SeqNum" -> "SeqNum"
      [] self = "TagNum" -> "TagNum"
      [] self = "String" -> "String"
      [] self = "Data" -> "data"
      [] self = "MonthYear" -> "MonthYear"
      [] self = "Currency" -> "Currency"
      [] self = "Exchange" -> "Exchange"
      [] self = "LocalMktDate" -> "LocalMktDate"
      [] self = "MultipleStringValue" -> "MultipleStringValue"
      [] self = "UtcTimeOnly" -> "UTCTimeOnly"
      [] self = "UtcTimestamp" -> "UTCTimestamp"
      [] self = "UtcDateOnly" -> "UTCDateOnly"
      [] self = "Country" -> "Country"
      [] self = "MultipleCharValue" -> "MultipleCharValue"
      [] self = "XmlData" -> "XMLData"

(* DataType::name. *)
name(self) ==
    CASE self = "Int" -> "int"
      [] self = "Length" -> "Length"
      [] self = "Char" -> "char"
      [] self = "Boolean" -> "Boolean"
      [] self = "Float" -> "float"
      [] self = "Amt" -> "Amt"
      [] self = "Price" -> "Price"
      [] self = "PriceOffset" -> "PriceOffset"
      [] self = "Qty" -> "Qty"
      [] self = "Percentage" -> "Percentage"
      [] self = "DayOfMonth" -> "DayOfMonth"
      [] self = "NumInGroup" -> "NumInGroup"
      [] self = "Language" -> "Language"
      [] self = "SeqNum" -> "SeqNum"
      [] self = "TagNum" -> "TagNum"
      [] self = "String" -> "String"
      [] self = "Data" -> "data"
      [] self = "MonthYear" -> "MonthYear"
      [] self = "Currency" -> "Currency"
      [] self = "Exchange" -> "Exchange"
      [] self = "LocalMktDate" -> "LocalMktDate"
      [] self = "MultipleStringValue" -> "MultipleStringValue"
      [] self = "UtcTimeOnly" -> "UTCTimeOnly"
      [] self = "UtcTimestamp" -> "UTCTimestamp"
      [] self = "UtcDateOnly" -> "UTCDateOnly"
      [] self = "Country" -> "Country"
      [] self = "MultipleCharValue" -> "MultipleCharValue"
      [] self = "XmlData" -> "XMLData"

(* DataType::is_base_type. *)
is_base_type(self) ==
    CASE self \in {"Char", "Float", "Int", "String"} -> TRUE
      [] OTHER -> FALSE

(* The match of DataType::base_type. *)
base_type_match(self) ==
    CASE self \in {"Char", "Boolean"} -> "Char"
      [] self \in {"Float", "Amt", "Price", "PriceOffset", "Qty", "Percentage"}
            -> "Float"
      [] self \in {"Int", "DayOfMonth", "Length", "NumInGroup", "SeqNum", "TagNum"}
            -> "Int"
      [] OTHER -> "String"

(* Mutant: Boolean kept as its own base. *)
base_type_keeps_boolean(self, dbg) ==
    IF self = "Boolean" THEN "Boolean" ELSE base_type_match(self)

(* DataType::base_type; "Panic" when debug_assert!(dt.is_base_type()) fails. *)
base_type(self, dbg) ==
    LET dt == base_type_match(self)
    IN  IF dbg /\ ~is_base_type(dt) THEN "Panic" ELSE dt

(* Mutant: the iterator stops one variant early. *)
iter_all_stops_early == SubSeq(DataTypeVariants, 1, Len(DataTypeVariants) - 1)

(* DataType::iter_all: strum's iterator over the variants, as a sequence. *)
iter_all == DataTypeVariants

(* Names looked up: every name of the match, every name to_quickfix_name   *)
(* gives, and a few more.                                                  *)
QueriedNames ==
    {"AMT", "BOOLEAN", "CHAR", "COUNTRY", "CURRENCY", "DATA", "DATE",
     "DAYOFMONTH", "EXCHANGE", "FLOAT", "INT", "LANGUAGE", "LENGTH",
     "LOCALMKTDATE", "MONTHYEAR", "MULTIPLECHARVALUE", "MULTIPLEVALUESTRING",
     "MULTIPLESTRINGVALUE", "NUMINGROUP", "PERCENTAGE", "PRICE", "PRICEOFFSET",
     "QTY", "STRING", "TZTIMEONLY", "TZTIMESTAMP", "UTCDATE", "UTCDATEONLY",
     "UTCTIMEONLY", "UTCTIMESTAMP", "SEQNUM", "TIME", "XMLDATA"}
    \cup {to_quickfix_name(dt) : dt \in DataType}
    \cup {"", "amt", "Int", "Seqnum", "monthyear", "AMT ", " AMT", "AM", "AMTS",
          "TAGNUM", "UTCTIME", "MULTIPLEVALUECHAR", "NONE"}

InitDataType ==
    /\ buffer = <<>>
    /\ data = <<>>
    /\ debug_assertions \in BOOLEAN
    /\ call = NoCall
    /\ config = Config_default
    /\ history = <<>>

FromQuickfixName ==
    /\ \E n \in QueriedNames :
        call' = [op |-> "from_quickfix_name", name |-> n,
                 result |-> from_quickfix_name(n)]
    /\ UNCHANGED <<buffer, data, debug_assertions, config, history>>

ToQuickfixName ==
    /\ \E self \in DataType :
        call' = [op |-> "to_quickfix_name", self |-> self,
                 result |-> to_quickfix_name(self)]
    /\ UNCHANGED <<buffer, data, debug_assertions, config, history>>

Name ==
    /\ \E self \in DataType :
        call' = [op |-> "name", self |-> self, result |-> name(self)]
    /\ UNCHANGED <<buffer, data, debug_assertions, config, history>>

IsBaseType ==
    /\ \E self \in DataType :
        call' = [op |-> "is_base_type", self |-> self,
                 result |-> is_base_type(self)]
    /\ UNCHANGED <<buffer, data, debug_assertions, config, history>>

(* base_type, and base_type of what it returned. *)
BaseType ==
    /\ \E self \in DataType :
        LET dt == base_type(self, debug_assertions)
        IN  call' = [op |-> "base_type", self |-> self, result |-> dt,
                     again |-> IF dt = "Panic" THEN "Panic"
                               ELSE base_type(dt, debug_assertions)]
    /\ UNCHANGED <<buffer, data, debug_assertions, config, history>>

(* Two calls of iter_all, each collected. *)
IterAll ==
    /\ call' = [op |-> "iter_all", result |-> iter_all, again |-> iter_all]
    /\ UNCHANGED <<buffer, data, debug_assertions, config, history>>

(* to_quickfix_name, and from_quickfix_name of the name it gave. *)
QuickfixNameRoundTrip ==
    /\ \E self \in DataType :
        LET n == to_quickfix_name(self)
        IN  call' = [op |-> "quickfix_name_round_trip", self |-> self,
                     name |-> n, result |-> from_quickfix_name(n)]
    /\ UNCHANGED <<buffer, data, debug_assertions, config, history>>

NextDataType ==
    \/ FromQuickfixName
    \/ ToQuickfixName
    \/ Name
    \/ IsBaseType
    \/ BaseType
    \/ IterAll
    \/ QuickfixNameRoundTrip

SpecDataType == InitDataType /\ [][NextDataType]_vars

----------------------------------------------------------------------------
(* Properties of the DataType taxonomy. *)

BaseTypes == {"Char", "Float", "Int", "String"}

(* C9: base_type is a total, idempotent map of DataType onto the four base *)
(* types: its value is a base type, applying it again changes nothing, a   *)
(* base type maps to itself and any other member to a different member.    *)
C9_BaseTypeTotalIdempotent ==
    /\ call.op = "base_type"
       => /\ call.self \in DataType
          /\ call.result \in BaseTypes
          /\ call.result \in DataType
          /\ call.again = call.result
          /\ is_base_type(call.self) => call.result = call.self
          /\ ~is_base_type(call.self) => call.result # call.self
          /\ is_base_type(call.self) <=> call.self \in BaseTypes
    /\ \A b \in BaseTypes :
          \E x \in DataType : base_type(x, debug_assertions) = b

C9_Witness ==
    /\ call.op = "base_type"
    /\ call.self = "Price"
    /\ call.result = "Float"
    /\ call.again = "Float"

(* The external-name table: each listed name with its DataType. *)
QuickfixNameTable ==
    {
     <<"AMT", "Amt">>,
     <<"BOOLEAN", "Boolean">>,
     <<"CHAR", "Char">>,
     <<"COUNTRY", "Country">>,
     <<"CURRENCY", "Currency">>,
     <<"DATA", "Data">>,
     <<"DATE", "UtcDateOnly">>,
     <<"DAYOFMONTH", "DayOfMonth">>,
     <<"EXCHANGE", "Exchange">>,
     <<"FLOAT", "Float">>,
     <<"INT", "Int">>,
     <<"LANGUAGE", "Language">>,
     <<"LENGTH", "Int">>,
     <<"LOCALMKTDATE", "LocalMktDate">>,
     <<"MONTHYEAR", "MonthYear">>,
     <<"MULTIPLECHARVALUE", "MultipleCharValue">>,
     <<"MULTIPLEVALUESTRING", "MultipleCharValue">>,
     <<"MULTIPLESTRINGVALUE", "MultipleStringValue">>,
     <<"NUMINGROUP", "NumInGroup">>,
     <<"PERCENTAGE", "Percentage">>,
     <<"PRICE", "Price">>,
     <<"PRICEOFFSET", "PriceOffset">>,
     <<"QTY", "Qty">>,
     <<"STRING", "String">>,
     <<"TZTIMEONLY", "UtcTimeOnly">>,
     <<"TZTIMESTAMP", "UtcTimestamp">>,
     <<"UTCDATE", "UtcDateOnly">>,
     <<"UTCDATEONLY", "UtcDateOnly">>,
     <<"UTCTIMEONLY", "UtcTimeOnly">>,
     <<"UTCTIMESTAMP", "UtcTimestamp">>,
     <<"SEQNUM", "Int">>,
     <<"TIME", "UtcTimestamp">>,
     <<"XMLDATA", "XmlData">>
    }

(* C10: from_quickfix_name returns the table's DataType for exactly the    *)
(* listed upper-case names, the many-to-one entries kept, and not-found    *)
(* for every other string: the empty one, and other spellings of a listed  *)
(* name such as "Amt".                                                     *)
C10_FromQuickfixNameTable ==
    call.op = "from_quickfix_name"
    => /\ \A dt \in DataType :
            call.result = Some(dt) <=> <<call.name, dt>> \in QuickfixNameTable
       /\ call.result = None
            <=> ~(\E dt \in DataType : <<call.name, dt>> \in QuickfixNameTable)
       /\ call.result \in {None} \cup {Some(dt) : dt \in DataType}
       /\ call.name \in {"", "Amt", "amt", "Int"} => call.result = None
       /\ call.name \in {"MULTIPLECHARVALUE", "MULTIPLEVALUESTRING"}
            => call.result = Some("MultipleCharValue")
       /\ call.name \in {"INT", "LENGTH", "SEQNUM"} => call.result = Some("Int")

C10_Witness ==
    /\ call.op = "from_quickfix_name"
    /\ call.name = "MULTIPLEVALUESTRING"
    /\ call.result = Some("MultipleCharValue")

C10_WitnessNotFound ==
    /\ call.op = "from_quickfix_name"
    /\ call.name = "Amt"
    /\ call.result = None

(* The members of DataType, as the exhaustive match of DataType::name     *)
(* lists them.                                                             *)
ClosedDataTypeSet ==
    {"Int", "Length", "Char", "Boolean", "Float", "Amt", "Price",
     "PriceOffset", "Qty", "Percentage", "DayOfMonth", "NumInGroup",
     "Language", "SeqNum", "TagNum", "String", "Data", "MonthYear",
     "Currency", "Exchange", "LocalMktDate", "MultipleStringValue",
     "UtcTimeOnly", "UtcTimestamp", "UtcDateOnly", "Country",
     "MultipleCharValue", "XmlData"}

(* C11: iter_all yields every member of DataType exactly once, more than   *)
(* 20 of them, and a second call yields the same sequence.                 *)
C11_IterAllEveryMemberOnce ==
    call.op = "iter_all"
    => /\ \A i \in 1..Len(call.result), j \in 1..Len(call.result) :
            call.result[i] = call.result[j] => i = j
       /\ {call.result[i] : i \in 1..Len(call.result)} = ClosedDataTypeSet
       /\ Len(call.result) = Cardinality(ClosedDataTypeSet)
       /\ Len(call.result) > 20
       /\ call.again = call.result

C11_Witness ==
    /\ call.op = "iter_all"
    /\ Len(call.result) = 28
    /\ call.result[1] = "Char"
    /\ call.result[28] = "Country"

----------------------------------------------------------------------------
(* A Config, from Config::default() on, under its setters and getters. *)

MaxCalls == 3      \* most setter calls made on one Config

(* Separators handed to the setters: SOH, `|` and `^`. *)
SeparatorArgs == {1, 124, 94}

InitConfig ==
    /\ buffer = <<>>
    /\ data = <<>>
    /\ debug_assertions \in BOOLEAN
    /\ call = NoCall
    /\ config = Config_default
    /\ history = <<>>

Default ==
    /\ config' = Config_default
    /\ history' = <<>>
    /\ call' = [op |-> "default"]
    /\ UNCHANGED <<buffer, data, debug_assertions>>

SetSeparator ==
    /\ Len(history) < MaxCalls
    /\ \E separator \in SeparatorArgs :
        /\ config' = Config_set_separator(config, separator)
        /\ history' = Append(history, [op |-> "set_separator", arg |-> separator])
        /\ call' = [op |-> "set_separator", arg |-> separator, before |-> config]
    /\ UNCHANGED <<buffer, data, debug_assertions>>

WithSeparator ==
    /\ Len(history) < MaxCalls
    /\ \E separator \in SeparatorArgs :
        /\ config' = Config_with_separator(config, separator)
        /\ history' = Append(history, [op |-> "with_separator", arg |-> separator])
        /\ call' = [op |-> "with_separator", arg |-> separator, before |-> config]
    /\ UNCHANGED <<buffer, data, debug_assertions>>

SetVerifyChecksum ==
    /\ Len(history) < MaxCalls
    /\ \E verify \in BOOLEAN :
        /\ config' = Config_set_verify_checksum(config, verify)
        /\ history' = Append(history, [op |-> "set_verify_checksum", arg |-> verify])
        /\ call' = [op |-> "set_verify_checksum", arg |-> verify, before |-> config]
    /\ UNCHANGED <<buffer, data, debug_assertions>>

WithChecksumVerification ==
    /\ Len(history) < MaxCalls
    /\ \E verify \in BOOLEAN :
        /\ config' = Config_with_checksum_verification(config, verify)
        /\ history' = Append(history,
                        [op |-> "with_checksum_verification", arg |-> verify])
        /\ call' = [op |-> "with_checksum_verification", arg |-> verify,
                    before |-> config]
    /\ UNCHANGED <<buffer, data, debug_assertions>>

GetSeparator ==
    /\ call' = [op |-> "separator", result |-> Config_separator(config)]
    /\ UNCHANGED <<buffer, data, debug_assertions, config, history>>

GetVerifyChecksum ==
    /\ call' = [op |-> "verify_checksum",
                result |-> Config_verify_checksum(config)]
    /\ UNCHANGED <<buffer, data, debug_assertions, config, history>>

GetMaxMessageSize ==
    /\ call' = [op |-> "max_message_size",
                result |-> Config_max_message_size(config)]
    /\ UNCHANGED <<buffer, data, debug_assertions, config, history>>

NextConfig ==
    \/ Default
    \/ SetSeparator
    \/ WithSeparator
    \/ SetVerifyChecksum
    \/ WithChecksumVerification
    \/ GetSeparator
    \/ GetVerifyChecksum
    \/ GetMaxMessageSize

SpecConfig == InitConfig /\ [][NextConfig]_vars

----------------------------------------------------------------------------
(* Properties of Config. *)

(* C12: a default Config reports separator 0x01, checksum verification on  *)
(* and a maximum message size of 65536 bytes.                              *)
C12_DefaultConfig ==
    history = <<>>
    => /\ call.op = "separator" => call.result = 1
       /\ call.op = "verify_checksum" => call.result = TRUE
       /\ call.op = "max_message_size" => call.result = Some(65536)
       /\ Config_separator(config) = 1
       /\ Config_verify_checksum(config) = TRUE
       /\ Config_max_message_size(config) = Some(65536)

C12_Witness ==
    /\ history = <<>>
    /\ call.op = "max_message_size"
    /\ call.result = Some(65536)

(* The Configs one operation of Config makes of self. *)
AfterOneOperation(self) ==
    {Config_default}
    \cup {Config_set_separator(self, b) : b \in 0..255}
    \cup {Config_with_separator(self, b) : b \in 0..255}
    \cup {Config_set_verify_checksum(self, v) : v \in BOOLEAN}
    \cup {Config_with_checksum_verification(self, v) : v \in BOOLEAN}

(* C13: every setting of Config can be changed: for each of separator,     *)
(* checksum verification and maximum message size some operation of Config *)
(* makes the getter return a value other than its default.                 *)
C13_EverySettingCanBeChanged ==
    /\ \E c \in AfterOneOperation(config) :
          Config_separator(c) # Config_separator(Config_default)
    /\ \E c \in AfterOneOperation(config) :
          Config_verify_checksum(c) # Config_verify_checksum(Config_default)
    /\ \E c \in AfterOneOperation(config) :
          Config_max_message_size(c) # Config_max_message_size(Config_default)

(* What no operation changes: the maximum message size, in every state. *)
C13_MaxMessageSizeFixed ==
    /\ Config_max_message_size(config) = Some(65536)
    /\ call.op = "max_message_size" => call.result = Some(65536)

SeparatorSetters == {"set_separator", "with_separator"}
ChecksumSetters == {"set_verify_checksum", "with_checksum_verification"}

(* The argument of the last call in calls whose name is in ops, or         *)
(* otherwise when there is none.                                           *)
RECURSIVE LastArgument(_, _, _)
LastArgument(calls, ops, otherwise) ==
    IF calls = <<>> THEN otherwise
    ELSE IF calls[Len(calls)].op \in ops THEN calls[Len(calls)].arg
    ELSE LastArgument(SubSeq(calls, 1, Len(calls) - 1), ops, otherwise)

(* C14: after any sequence of separator and checksum setter calls,         *)
(* separator() is the argument of the last separator call (0x01 if none),  *)
(* verify_checksum() the argument of the last checksum call (true if       *)
(* none); a separator call leaves verify_checksum() as it was, a checksum  *)
(* call leaves separator() as it was, and neither changes                  *)
(* max_message_size().                                                     *)
C14_LastSetterWins ==
    /\ Config_separator(config) = LastArgument(history, SeparatorSetters, 1)
    /\ Config_verify_checksum(config)
          = LastArgument(history, ChecksumSetters, TRUE)
    /\ call.op = "separator"
          => call.result = LastArgument(history, SeparatorSetters, 1)
    /\ call.op = "verify_checksum"
          => call.result = LastArgument(history, ChecksumSetters, TRUE)
    /\ call.op \in SeparatorSetters
          => /\ Config_verify_checksum(config)
                    = Config_verify_checksum(call.before)
             /\ Config_max_message_size(config)
                    = Config_max_message_size(call.before)
    /\ call.op \in ChecksumSetters
          => /\ Config_separator(config) = Config_separator(call.before)
             /\ Config_max_message_size(config)
                    = Config_max_message_size(call.before)

C14_Witness ==
    /\ Len(history) = 3
    /\ history[1].op = "set_verify_checksum" /\ history[1].arg = FALSE
    /\ history[2].op = "set_separator" /\ history[2].arg = 124
    /\ history[3].op = "with_separator" /\ history[3].arg = 94
    /\ call.op = "verify_checksum"
    /\ call.result = FALSE
    /\ Config_separator(config) = 94

----------------------------------------------------------------------------
(* Further properties of the encoder and of verify_body_length. *)

(* C15: encode_raw only appends: every byte the buffer held before the     *)
(* call is unchanged, so truncating to the earlier length restores the     *)
(* buffer; and of the bytes it wrote, only the six BodyLength digits are   *)
(* overwritten afterwards.                                                 *)
C15_OnlyAppends ==
    call.op = "encode_raw"
    => LET first == Len(call.header) - 7
       IN  /\ Len(buffer) >= Len(call.before)
           /\ SubSeq(buffer, 1, Len(call.before)) = call.before
           /\ SubSeq(call.header, 1, Len(call.before)) = call.before
           /\ SubSeq(call.written, 1, Len(call.header)) = call.header
           /\ Len(call.patched) = Len(call.written)
           /\ Len(buffer) >= Len(call.written)
           /\ \A i \in 1..Len(call.written) :
                buffer[i] # call.written[i] => (first < i /\ i <= first + 6)

C15_Witness ==
    /\ Encoded
    /\ call.before = <<255>>
    /\ call.ret = 543210
    /\ call.body = <<49, 255>>
    /\ buffer[1] = 255
    /\ call.written # call.patched

(* C16 as claimed: for every body length the body writer can return, each  *)
(* of the six back-patched bytes is an ASCII digit and the back-patch      *)
(* completes without an arithmetic overflow.                               *)
C16_AlwaysDigits ==
    call.op = "encode_raw"
    => /\ call.returned = "Ok"
       /\ \A i \in 1..6 : IsDigit(BodyLengthField(call.patched)[i])

(* C16 as amended: for every body length up to 999,999 each of the six     *)
(* bytes is an ASCII digit and the back-patch does not overflow. For a     *)
(* longer length the last five bytes are digits still, the first is `:` at *)
(* 1,000,000, and the back-patch overflows u8, which panics in a build     *)
(* with overflow checks, exactly when (n / 100000) mod 256 >= 208.         *)
C16_DigitsUpToMaxBodyLength ==
    call.op = "encode_raw"
    => LET field == BodyLengthField(call.patched)
       IN  /\ call.ret <= MaxBodyLength
              => /\ call.returned = "Ok"
                 /\ \A i \in 1..6 : IsDigit(field[i])
           /\ call.returned = "Ok" => \A i \in 2..6 : IsDigit(field[i])
           /\ (call.returned = "Ok" /\ call.ret = MaxBodyLength + 1)
              => field[1] = 58
           /\ call.returned = "Panic"
              <=> (debug_assertions /\ (call.ret \div 100000) % 256 >= 208)

C16_Witness ==
    /\ Encoded
    /\ call.ret = MaxBodyLength
    /\ BodyLengthField(buffer) = <<57, 57, 57, 57, 57, 57>>

C16_WitnessColon ==
    /\ Encoded
    /\ call.ret = 1000000
    /\ BodyLengthField(buffer) = <<58, 48, 48, 48, 48, 48>>

C16_WitnessPanic ==
    /\ call.op = "encode_raw"
    /\ call.ret = 20800000
    /\ call.returned = "Panic"

(* C17: verify_body_length never succeeds on data shorter than the 7-byte  *)
(* checksum field: it returns the invalid-body-length error for every      *)
(* start_of_body and every declared length.                                *)
C17_ShortDataRejected ==
    (call.op = "verify_body_length" /\ Len(data) < FIELD_CHECKSUM_LEN_IN_BYTES)
    => call.result = "Invalid"

(* C18: the external-name mapping is bidirectional: for every DataType d,  *)
(* from_quickfix_name(to_quickfix_name(d)) returns d.                      *)
C18_QuickfixNameRoundTrip ==
    call.op = "quickfix_name_round_trip" => call.result = Some(call.self)

(* What the code does instead: no name to_quickfix_name gives is a name    *)
(* from_quickfix_name knows.                                               *)
C18_NoNameComesBack ==
    call.op = "quickfix_name_round_trip" => call.result = None

====
